---- MODULE Spec2Model ----
(***************************************************************************)
(* Model of the image-distribution-operator: one NodeImage record, the     *)
(* NodeImage reconciler (internal/controller/image), the release           *)
(* controller's reference operations (pkg/image Client) and the provider   *)
(* catalog.  Every step of a handler is one external call (API server,     *)
(* provider, source probe) together with the local computation that        *)
(* precedes it, so that handlers interleave exactly at their calls.        *)
(***************************************************************************)
EXTENDS Integers, Sequences, FiniteSets, TLC

\* ------------------------------------------------------------------ bounds
MaxTime == 4
MaxInvocations == 3
MaxOps == 3
MaxCalls == 3

\* ---------------------------------------------------------- program values
TicksPerSecond == 3
RetentionSeconds == 1
DefaultRequeueSeconds == 300
Releases == {"v1", "v2"}
AllLocations == {"dc1", "dc2"}
NoLoc == "-"
ImageName == "img"
ImageSuffix == "sfx"
NoRelease == "-"

NodeImagePending == "Pending"
NodeImageUploading == "Uploading"
NodeImageAvailable == "Available"
NodeImageMissing == "Missing"
NodeImageError == "Error"
NodeImageAwaitingDeletion == "AwaitingDeletion"
NodeImageDeleting == "Deleting"
NodeImageDeleted == "Deleted"
NoState == ""
NoAnnotation == -1

VARIABLES
    obj,        \* the persisted NodeImage record
    catalog,    \* locations of the provider that hold the image
    now,        \* wall clock, in ticks
    retention,  \* NodeImageReconciler.ImageRetentionPeriod, in seconds
    provOK,     \* the NodeImage's provider tag is in NodeImageReconciler.Providers
    urlOK,      \* the S3 client's URL for the image key passes ValidURL
    locs,       \* the locations the provider is configured with
    hist,       \* what happened behind Reconcile's back: locations emptied
                \* out-of-band, whether an invocation was aborted
    rpc,        \* position of the NodeImage reconciler inside Reconcile
    ni,         \* the reconciler's in-memory nodeImage
    todo,       \* locations the range loop has not visited yet
    cur,        \* location of the current loop iteration
    inv,        \* what the current Reconcile invocation has done so far
    wpc,        \* position of the release controller's worker
    wrel,       \* the release it is reconciling
    wobj,       \* its in-memory object
    lastOk,     \* releases whose last operation that returned nil was an add
    act,        \* the call made by the last step
    transAt,    \* clock value when the last-used annotation was stamped
    nInv,       \* Reconcile invocations started
    nOps,       \* reference operations started
    templates,  \* vCenter inventory: the VM paths (location folder, name)
    suffixed,   \* locations whose configuration sets imagesuffix
    pcall,      \* the last call of a provider backend and what it returned
    lastCreate, \* per location, whether a Create since the last Delete
                \* succeeded ("ok") or all of them failed ("failed")
    nCalls,     \* backend calls made
    rls,        \* the persisted Release objects, by name
    release     \* the release controller's in-memory release

vars == <<obj, catalog, now, retention, provOK, urlOK, locs, hist, rpc, ni, todo, cur, inv,
          wpc, wrel, wobj, lastOk, act, transAt, nInv, nOps,
          templates, suffixed, pcall, lastCreate, nCalls, rls, release>>

\* prov.GetLocations()
Locations ==
    locs

\* --------------------------------------------------------- the API server
\* A NodeImage as stored: deletionTimestamp, finalizer, last-used annotation,
\* status.state, status.releases (relnil: the stored object has no status,
\* a Go client reads Releases == nil).
NoObj ==
    [exists |-> FALSE, marked |-> FALSE, fin |-> FALSE, ann |-> NoAnnotation,
     state |-> NoState, rel |-> <<>>, relnil |-> TRUE]

\* client.Create: the status of a new object is dropped (status subresource).
NewObj ==
    [NoObj EXCEPT !.exists = TRUE]

NoCopy ==
    [exists |-> FALSE, marked |-> FALSE, fin |-> FALSE, ann |-> NoAnnotation,
     state |-> NoState, rel |-> <<>>, relnil |-> TRUE, fresh |-> FALSE]

\* client.Get: a copy of the stored object at its current resourceVersion.
GetCopy(o) ==
    [exists |-> o.exists, marked |-> o.marked, fin |-> o.fin, ann |-> o.ann,
     state |-> o.state, rel |-> o.rel, relnil |-> o.relnil, fresh |-> TRUE]

\* Optimistic concurrency: a write is accepted only at the stored
\* resourceVersion (the copy is fresh) of an object that still exists.
VersionOK(c) ==
    obj.exists /\ c.fresh

\* CRD schema: status.releases and status.state are required, releases is an
\* array; a nil slice is sent as null and rejected.
StatusValid(c) ==
    ~c.relnil

\* client.Update: writes metadata (finalizers, annotations); status in the
\* request is ignored.  Removing the last finalizer of a record marked for
\* deletion removes the record.
UpdateAccepted(c) ==
    VersionOK(c)

UpdateStored(c) ==
    IF obj.marked /\ ~c.fin
    THEN NoObj
    ELSE [obj EXCEPT !.fin = c.fin, !.ann = c.ann]

\* The response of Update is decoded into the caller's object: its status is
\* replaced by the stored status (kept when the stored object has none).
UpdateRefresh(c, o) ==
    IF o.relnil
    THEN [c EXCEPT !.exists = o.exists, !.marked = o.marked, !.fin = o.fin,
                   !.ann = o.ann, !.fresh = o.exists]
    ELSE GetCopy(o)

\* client.Status().Update: writes status only.
StatusAccepted(c) ==
    VersionOK(c) /\ StatusValid(c)

StatusStored(c) ==
    [obj EXCEPT !.state = c.state, !.rel = c.rel, !.relnil = FALSE]

\* client.Delete: by name, without precondition; a finalizer defers removal.
DeleteStored ==
    IF ~obj.exists THEN obj
    ELSE IF obj.fin THEN [obj EXCEPT !.marked = TRUE]
    ELSE NoObj

\* A stored change moves the resourceVersion: every other copy is stale.
Stale(c, changed) ==
    IF changed THEN [c EXCEPT !.fresh = FALSE] ELSE c

\* ------------------------------------------------------------------- time
RetentionTicks ==
    retention * TicksPerSecond

\* time.Now().Format(time.RFC3339) then time.Parse: whole seconds.
FormatRFC3339(t) ==
    t - (t % TicksPerSecond)

ParseRFC3339(a) ==
    a

Result(e, a) ==
    [done |-> TRUE, err |-> e, after |-> a]

\* Fault: a pass ends without a re-queue.
DefaultRequeueNever ==
    Result(FALSE, 0)

\* DefaultRequeue(): RequeueAfter five minutes, no error.
DefaultRequeue ==
    Result(FALSE, DefaultRequeueSeconds * TicksPerSecond)

\* ------------------------------------------------------------------ ghosts
NoInv ==
    [existsTrue |-> {}, existsFalse |-> {}, created |-> {}, failed |-> {},
     missing |-> {}, delCalled |-> {}, delOk |-> {}]

NoHist ==
    [removed |-> {}, aborted |-> FALSE]

NoCall ==
    [backend |-> "none", op |-> "none", loc |-> NoLoc, lookup |-> "none",
     ret |-> "none"]

\* A Release as stored: deletionTimestamp, the release-controller finalizer,
\* whether its components give an image name (getImageName), and the
\* provider its name starts with ("" when getImageProvider finds none).
NoReleaseObj ==
    [exists |-> FALSE, marked |-> FALSE, fin |-> FALSE, components |-> FALSE,
     provider |-> ""]

NoReleaseCopy ==
    [name |-> NoRelease, marked |-> FALSE, fin |-> FALSE, fresh |-> FALSE]

\* No Release object is there, the release controller holds none.
ReleasesAbsent ==
    /\ rls = [r \in Releases |-> NoReleaseObj]
    /\ release = NoReleaseCopy

\* The provider backends are not called.
BackendUnused ==
    /\ templates = {}
    /\ suffixed = {}
    /\ pcall = NoCall
    /\ lastCreate = [l \in AllLocations |-> "none"]
    /\ nCalls = 0

\* The call a reconciler step makes (k, loc, ok), what the store and the
\* catalog held when it was made (relEmpty, brandNew, held), and, when the
\* step ends the invocation, the (result, error) Reconcile returns.
NoReturn ==
    [done |-> FALSE, err |-> FALSE, after |-> 0]

Act(k, l, okv, r) ==
    [k |-> k, loc |-> l, ok |-> okv, relEmpty |-> Len(obj.rel) = 0,
     brandNew |-> obj.exists /\ obj.relnil, held |-> l \in catalog,
     ret |-> r]

\* Steps that the properties below do not look at.
NoAct ==
    [k |-> "none", loc |-> NoLoc, ok |-> TRUE, relEmpty |-> TRUE,
     brandNew |-> FALSE, held |-> FALSE, ret |-> NoReturn]

Init ==
    /\ obj = NoObj
    /\ locs \in {{"dc1"}, AllLocations}
    /\ hist = NoHist
    /\ catalog \in {{}, locs}
    /\ now = 0
    /\ retention \in {0, RetentionSeconds}
    /\ provOK \in BOOLEAN
    /\ urlOK \in BOOLEAN
    /\ rpc = "idle"
    /\ ni = NoCopy
    /\ todo = {}
    /\ cur = NoLoc
    /\ inv = NoInv
    /\ wpc = "idle"
    /\ wrel = NoRelease
    /\ wobj = NoCopy
    /\ lastOk = {}
    /\ act = NoAct
    /\ transAt = NoAnnotation
    /\ nInv = 0
    /\ nOps = 0
    /\ BackendUnused
    /\ ReleasesAbsent

\* The configuration, and the history no handler writes.
provvars == <<templates, suffixed, pcall, lastCreate, nCalls>>
relvars == <<rls, release>>
opvars == <<retention, provOK, urlOK, locs, hist, provvars>>
cfgvars == <<opvars, relvars>>
workervars == <<wpc, wrel, wobj, lastOk, nOps>>

\* ------------------------------------------------- NodeImage reconciler
\* A stored change moves the resourceVersion: the copy a release operation
\* holds can only be rejected from then on.
WorkersSee(changed) ==
    wobj' = IF changed THEN NoCopy ELSE wobj

\* Where a step of Reconcile continues: the next position, whether the
\* current location is done, and what Reconcile returns if it ends here.
Continue(pc) ==
    [pc |-> pc, drop |-> FALSE, ret |-> NoReturn]

NextLocation(pc) ==
    [pc |-> pc, drop |-> TRUE, ret |-> NoReturn]

Return(r) ==
    [pc |-> "idle", drop |-> TRUE, ret |-> r]

Goto(k, l) ==
    /\ rpc' = k.pc
    /\ todo' = IF k.pc = "idle" THEN {}
               ELSE IF k.drop THEN todo \ {l} ELSE todo
    /\ cur' = IF k.drop THEN NoLoc ELSE l

\* Fault: the write is issued whatever the state.
StatusWriteAlways(s) ==
    TRUE

\* UpdateStatus(state): writes only when state differs from the in-memory
\* state; nodeImage.Status.State is assigned before the write.
StatusWrite(s) ==
    ni.state # s

WithState(s) ==
    [ni EXCEPT !.state = s]

\* A reconciler step that calls UpdateStatus(s) for location l and continues
\* at okK after nil, at errK after an error.
DoUpdateStatus(s, l, okK, errK) ==
    LET c == WithState(s) IN
    IF ~StatusWrite(s)
    THEN /\ Goto(okK, l)
         /\ ni' = ni
         /\ obj' = obj
         /\ WorkersSee(FALSE)
         /\ act' = Act("StatusSkip:" \o s, l, TRUE, okK.ret)
    ELSE IF StatusAccepted(c)
    THEN /\ Goto(okK, l)
         /\ obj' = StatusStored(c)
         /\ ni' = GetCopy(obj')
         /\ WorkersSee(obj' # obj)
         /\ act' = Act("Status:" \o s, l, TRUE, okK.ret)
    ELSE /\ Goto(errK, l)
         /\ ni' = c
         /\ obj' = obj
         /\ WorkersSee(FALSE)
         /\ act' = Act("Status:" \o s, l, FALSE, errK.ret)

\* A reconciler step that calls r.Update with the in-memory object c.
DoUpdate(name, c, okK, errK) ==
    IF UpdateAccepted(c)
    THEN /\ Goto(okK, NoLoc)
         /\ obj' = UpdateStored(c)
         /\ ni' = UpdateRefresh(c, obj')
         /\ WorkersSee(obj' # obj)
         /\ act' = Act(name, NoLoc, TRUE, okK.ret)
    ELSE /\ Goto(errK, NoLoc)
         /\ obj' = obj
         /\ ni' = c
         /\ WorkersSee(FALSE)
         /\ act' = Act(name, NoLoc, FALSE, errK.ret)

\* A reconciler step that calls r.Delete and returns.
DoDelete ==
    /\ Goto(Return(Result(~obj.exists, 0)), NoLoc)
    /\ obj' = DeleteStored
    /\ ni' = ni
    /\ WorkersSee(obj' # obj)
    /\ act' = Act("Delete", NoLoc, obj.exists, Result(~obj.exists, 0))

\* A reconciler step without a call to the API server.
Local(name, l, okv, k) ==
    /\ Goto(k, l)
    /\ act' = Act(name, l, okv, k.ret)
    /\ UNCHANGED <<obj, ni, wobj>>

\* Fault: the deletion sweep visits a single location.
DeleteOneLocation ==
    {CHOOSE l \in Locations : TRUE}

\* Line 197: prov.GetLocations() of the deletion sweep.
DeleteLocations ==
    Locations

\* Fault: the sweep is entered without looking the provider up.
AfterGetAlwaysSweeps(o) ==
    IF ~o.exists THEN Return(Result(FALSE, 0))
    ELSE IF o.marked THEN Continue("delLoop")
    ELSE Continue(IF o.fin THEN "decide" ELSE "addFin")

\* Fault: the deletion mark is not looked at.
AfterGetIgnoresDeletion(o) ==
    IF ~o.exists THEN Return(Result(FALSE, 0))
    ELSE Continue(IF o.fin THEN "decide" ELSE "addFin")

\* Fault: the normal path is entered without the finalizer.
AfterGetSkipsFinalizer(o) ==
    IF ~o.exists THEN Return(Result(FALSE, 0))
    ELSE IF o.marked THEN Continue(IF provOK THEN "delLoop" ELSE "rmFin")
    ELSE Continue("decide")

\* Lines 178-224: where Reconcile goes after r.Get.
AfterGet(o) ==
    IF ~o.exists THEN Return(Result(FALSE, 0))
    ELSE IF o.marked THEN Continue(IF provOK THEN "delLoop" ELSE "rmFin")
    ELSE Continue(IF o.fin THEN "decide" ELSE "addFin")

\* r.Get and the branch on IsDeleted / ContainsFinalizer.
R_Get ==
    /\ rpc = "idle"
    /\ nInv < MaxInvocations
    /\ nInv' = nInv + 1
    /\ inv' = NoInv
    /\ act' = Act("Get", NoLoc, obj.exists, AfterGet(obj).ret)
    /\ ni' = IF obj.exists THEN GetCopy(obj) ELSE NoCopy
    /\ rpc' = AfterGet(obj).pc
    /\ todo' = IF rpc' = "delLoop" THEN DeleteLocations ELSE {}
    /\ cur' = NoLoc
    /\ UNCHANGED <<obj, catalog, now, cfgvars, workervars, transAt>>

\* Lines 217-224: controllerutil.AddFinalizer and r.Update.
R_AddFinalizer ==
    /\ rpc = "addFin"
    /\ DoUpdate("Update:addFin", [ni EXCEPT !.fin = TRUE],
                Continue("decide"), Return(Result(TRUE, 0)))
    /\ UNCHANGED <<catalog, now, cfgvars, inv, wpc, wrel, lastOk, nOps, transAt, nInv>>

\* Fault: the annotation of a record awaiting deletion is not looked at.
AwaitingStampIgnored(c) ==
    FALSE

\* Lines 226-246: the record is awaiting deletion and carries a parsable
\* last-used annotation.
AwaitingWithStamp(c) ==
    c.state = NodeImageAwaitingDeletion /\ c.ann # NoAnnotation

ExpirationTime(c) ==
    ParseRFC3339(c.ann) + RetentionTicks

\* time.Now().After(expirationTime)
Expired(t, e) ==
    t > e

\* Fault: the guard on the state is dropped.
UnreferencedUnguarded(c) ==
    Len(c.rel) = 0

\* Line 251: no release references the image and it is not brand-new.
Unreferenced(c) ==
    Len(c.rel) = 0 /\ c.state # NoState

\* Fault: the retention branch is taken whatever the period.
RetainAlways ==
    retention >= 0

\* Line 252.
Retain ==
    retention > 0

\* Lines 226-246: the retention window of a record awaiting deletion.
R_AwaitingDeletion ==
    /\ rpc = "decide"
    /\ AwaitingWithStamp(ni)
    /\ IF Expired(now, ExpirationTime(ni))
       THEN DoDelete
       ELSE Local("RequeueAfter", NoLoc, TRUE,
                  Return(Result(FALSE, ExpirationTime(ni) - now)))
    /\ UNCHANGED <<catalog, now, cfgvars, inv, wpc, wrel, lastOk, nOps, transAt, nInv>>

\* Lines 251-271: no release references the image.
R_Unreferenced ==
    /\ rpc = "decide"
    /\ ~AwaitingWithStamp(ni)
    /\ Unreferenced(ni)
    /\ IF Retain
       THEN /\ DoUpdate("Update:stamp", [ni EXCEPT !.ann = FormatRFC3339(now)],
                        Continue("markAwait"), Return(Result(TRUE, 0)))
            /\ transAt' = IF act'.ok THEN now ELSE transAt
       ELSE /\ DoDelete
            /\ transAt' = transAt
    /\ UNCHANGED <<catalog, now, cfgvars, inv, wpc, wrel, lastOk, nOps, nInv>>

\* Line 260: UpdateStatus(AwaitingDeletion), then RequeueAfter the period.
R_MarkAwaiting ==
    /\ rpc = "markAwait"
    /\ DoUpdateStatus(NodeImageAwaitingDeletion, NoLoc,
                      Return(Result(FALSE, RetentionTicks)),
                      Return(Result(TRUE, 0)))
    /\ UNCHANGED <<catalog, now, cfgvars, inv, wpc, wrel, lastOk, nOps, nInv, transAt>>

\* Lines 273-281: r.S3Client.ValidURL(url) fails; the error is returned.
R_InvalidURL ==
    /\ rpc = "decide"
    /\ ~AwaitingWithStamp(ni)
    /\ ~Unreferenced(ni)
    /\ ~urlOK
    /\ Local("InvalidURL", NoLoc, FALSE, Return(Result(TRUE, 0)))
    /\ UNCHANGED <<catalog, now, cfgvars, inv, wpc, wrel, lastOk, nOps, nInv, transAt>>

\* Lines 283-293: the provider is not configured.
R_NoProvider ==
    /\ rpc = "decide"
    /\ ~AwaitingWithStamp(ni)
    /\ ~Unreferenced(ni)
    /\ urlOK
    /\ ~provOK
    /\ DoUpdateStatus(NodeImageError, NoLoc, Return(Result(FALSE, 0)),
                      Return(Result(TRUE, 0)))
    /\ UNCHANGED <<catalog, now, cfgvars, inv, wpc, wrel, lastOk, nOps, nInv, transAt>>

\* The normal path is entered (lines 273-296) or the range loop continues.
InLoop ==
    \/ rpc = "loop"
    \/ /\ rpc = "decide"
       /\ ~AwaitingWithStamp(ni)
       /\ ~Unreferenced(ni)
       /\ urlOK
       /\ provOK

\* Fault: the range loop is entered with a single location.
RemainingOfOne ==
    IF rpc = "loop" THEN todo ELSE {CHOOSE l \in Locations : TRUE}

\* Line 296: the locations the range loop has still to visit.
Remaining ==
    IF rpc = "loop" THEN todo ELSE Locations

\* Fault: an existing image is uploaded again.
AfterExistsUploads(outcome) ==
    CASE outcome = "error" -> "setErr"
      [] OTHER -> "setUploading"

\* Fault: a record left in Uploading is taken as an interrupted import and the
\* import is started again although the image is there.
AfterExistsResumesUpload(outcome) ==
    CASE outcome = "true" /\ ni.state # NodeImageUploading -> "setAvail"
      [] outcome = "error" -> "setErr"
      [] OTHER -> "setUploading"

\* Fault: the import starts without the Uploading status.
AfterExistsSkipsUploading(outcome) ==
    CASE outcome = "true" -> "setAvail"
      [] outcome = "false" -> "create"
      [] OTHER -> "setErr"

\* CreateProvider, lines 320-330: where to go after prov.Exists.
AfterExists(outcome) ==
    CASE outcome = "true" -> "setAvail"
      [] outcome = "false" -> "setUploading"
      [] OTHER -> "setErr"

\* Line 298: ImageAvailable(url) fails for the next location of the range
\* loop (map iteration order is unspecified).
R_ImageUnavailable ==
    /\ InLoop
    /\ \E loc \in Remaining :
          /\ rpc' = "setMissing"
          /\ cur' = loc
          /\ todo' = Remaining
          /\ act' = Act("Head", loc, FALSE, NoReturn)
          /\ inv' = [inv EXCEPT !.missing = @ \cup {loc}]
    /\ UNCHANGED <<obj, catalog, now, cfgvars, ni, workervars, transAt, nInv>>

\* Lines 298 and 320: the source is reachable, then prov.Exists(ctx, name, loc).
R_Exists ==
    /\ InLoop
    /\ \E loc \in Remaining, outcome \in {"true", "false", "error"} :
          /\ outcome = "true" => loc \in catalog
          /\ outcome = "false" => loc \notin catalog
          /\ rpc' = AfterExists(outcome)
          /\ cur' = loc
          /\ todo' = Remaining
          /\ act' = Act("Exists:" \o outcome, loc, outcome # "error", NoReturn)
          /\ inv' = CASE outcome = "true" ->
                           [inv EXCEPT !.existsTrue = @ \cup {loc}]
                      [] outcome = "false" ->
                           [inv EXCEPT !.existsFalse = @ \cup {loc}]
                      [] OTHER ->
                           [inv EXCEPT !.failed = @ \cup {loc}]
    /\ UNCHANGED <<obj, catalog, now, cfgvars, ni, workervars, transAt, nInv>>

\* Line 313: the range loop is over.
R_LoopDone ==
    /\ rpc = "loop"
    /\ todo = {}
    /\ Local("Done", NoLoc, TRUE, Return(DefaultRequeue))
    /\ UNCHANGED <<catalog, now, cfgvars, inv, wpc, wrel, lastOk, nOps, transAt, nInv>>

\* Fault: the range loop goes on after a failed probe.
AfterMissingContinues ==
    NextLocation("loop")

\* Line 303: return DefaultRequeue(), nil
AfterMissing ==
    Return(DefaultRequeue)

\* Lines 300-303: UpdateStatus(Missing); its error is returned.
R_SetMissing ==
    /\ rpc = "setMissing"
    /\ DoUpdateStatus(NodeImageMissing, cur, AfterMissing,
                      Return(Result(TRUE, 0)))
    /\ UNCHANGED <<catalog, now, cfgvars, inv, wpc, wrel, lastOk, nOps, nInv, transAt>>

\* Lines 324 and 343: UpdateStatus(Available); nil continues the range loop.
R_SetAvailable ==
    /\ rpc = "setAvail"
    /\ DoUpdateStatus(NodeImageAvailable, cur, NextLocation("loop"),
                      Continue("setErr"))
    /\ UNCHANGED <<catalog, now, cfgvars, inv, wpc, wrel, lastOk, nOps, nInv, transAt>>

\* Fault: the error of UpdateStatus(Uploading) is dropped.
UploadingFailedIgnored ==
    Continue("create")

\* Lines 330-332: the error of UpdateStatus(Uploading) is returned to
\* Reconcile.
UploadingFailed ==
    Continue("setErr")

\* Line 330: UpdateStatus(Uploading) before the import.
R_SetUploading ==
    /\ rpc = "setUploading"
    /\ DoUpdateStatus(NodeImageUploading, cur, Continue("create"),
                      UploadingFailed)
    /\ UNCHANGED <<catalog, now, cfgvars, inv, wpc, wrel, lastOk, nOps, nInv, transAt>>

\* Fault: the error of prov.Create is dropped.
AfterCreateIgnoresError(ok) ==
    "setAvail"

\* CreateProvider, lines 335-343: where to go after prov.Create.
AfterCreate(ok) ==
    IF ok THEN "setAvail" ELSE "setErr"

\* Line 335: prov.Create(ctx, url, name, loc)
R_Create ==
    /\ rpc = "create"
    /\ \E ok \in BOOLEAN :
          /\ catalog' = IF ok THEN catalog \cup {cur} ELSE catalog
          /\ Local("Create", cur, ok, Continue(AfterCreate(ok)))
          /\ inv' = [inv EXCEPT !.created = @ \cup {cur},
                                !.failed = IF ok THEN @ ELSE @ \cup {cur}]
    /\ UNCHANGED <<now, cfgvars, wpc, wrel, lastOk, nOps, transAt, nInv>>

\* Lines 306-309: CreateProvider failed, UpdateStatus(Error), return the error.
R_SetError ==
    /\ rpc = "setErr"
    /\ DoUpdateStatus(NodeImageError, cur, Return(Result(TRUE, 0)),
                      Return(Result(TRUE, 0)))
    /\ UNCHANGED <<catalog, now, cfgvars, inv, wpc, wrel, lastOk, nOps, nInv, transAt>>

\* DeleteProvider, line 350: UpdateStatus(Deleting) for the next location.
R_SetDeleting ==
    /\ rpc = "delLoop"
    /\ \E loc \in todo :
          DoUpdateStatus(NodeImageDeleting, loc, Continue("provDelete"),
                         Continue("delErr"))
    /\ UNCHANGED <<catalog, now, cfgvars, inv, wpc, wrel, lastOk, nOps, nInv, transAt>>

\* Fault: the result of prov.Delete is ignored.
AfterDeleteIgnoresError(ok) ==
    "setDeleted"

\* Lines 198-204 and 355-357: where to go after prov.Delete.
AfterDelete(ok) ==
    IF ok THEN "setDeleted" ELSE "delErr"

\* Line 355: prov.Delete(ctx, name, loc)
R_ProviderDelete ==
    /\ rpc = "provDelete"
    /\ \E ok \in BOOLEAN :
          /\ catalog' = IF ok THEN catalog \ {cur} ELSE catalog
          /\ Local("ProviderDelete", cur, ok, Continue(AfterDelete(ok)))
          /\ inv' = [inv EXCEPT !.delCalled = @ \cup {cur},
                                !.delOk = IF ok THEN @ \cup {cur} ELSE @]
    /\ UNCHANGED <<now, cfgvars, wpc, wrel, lastOk, nOps, transAt, nInv>>

\* Line 362: UpdateStatus(Deleted); nil continues the sweep.
R_SetDeleted ==
    /\ rpc = "setDeleted"
    /\ DoUpdateStatus(NodeImageDeleted, cur, NextLocation("delLoop"),
                      Continue("delErr"))
    /\ UNCHANGED <<catalog, now, cfgvars, inv, wpc, wrel, lastOk, nOps, nInv, transAt>>

\* Lines 199-202: DeleteProvider failed, UpdateStatus(Error), return the error.
R_DeleteError ==
    /\ rpc = "delErr"
    /\ DoUpdateStatus(NodeImageError, cur, Return(Result(TRUE, 0)),
                      Return(Result(TRUE, 0)))
    /\ UNCHANGED <<catalog, now, cfgvars, inv, wpc, wrel, lastOk, nOps, nInv, transAt>>

\* Lines 186-192 and 207-213: remove the finalizer with r.Update.
R_RemoveFinalizer ==
    /\ \/ rpc = "rmFin"
       \/ rpc = "delLoop" /\ todo = {}
    /\ IF ni.fin
       THEN DoUpdate("Update:rmFin", [ni EXCEPT !.fin = FALSE],
                     Return(Result(FALSE, 0)), Return(Result(TRUE, 0)))
       ELSE Local("NoFinalizer", NoLoc, TRUE, Return(Result(FALSE, 0)))
    /\ UNCHANGED <<catalog, now, cfgvars, inv, wpc, wrel, lastOk, nOps, nInv, transAt>>

\* ------------------------------------- release controller: pkg/image Client
\* The release controller reconciles one Release at a time (SetupWithManager
\* sets no MaxConcurrentReconciles); its steps interleave with Reconcile.
Listed(c, r) ==
    \E i \in 1..Len(c.rel) : c.rel[i] = r

\* append(releases[:index], releases[index+1:]...) for the first match.
RemoveFirst(s, r) ==
    LET i == CHOOSE j \in 1..Len(s) :
                 s[j] = r /\ \A k \in 1..(j - 1) : s[k] # r
    IN SubSeq(s, 1, i - 1) \o SubSeq(s, i + 1, Len(s))

\* AddReleaseToNodeImageStatus, line 598.
ResetsState(c) ==
    c.state = NoState \/ c.state = NodeImageAwaitingDeletion

\* Fault: the state of the record is left as it was read.
AddLocalKeepsState(c, r) ==
    [c EXCEPT !.rel = Append(@, r), !.relnil = FALSE]

\* AddReleaseToNodeImageStatus, lines 594-610: the in-memory change.
AddLocal(c, r) ==
    LET c1 == [c EXCEPT !.rel = Append(@, r), !.relnil = FALSE] IN
    IF ResetsState(c)
    THEN [c1 EXCEPT !.state = NodeImagePending, !.ann = NoAnnotation]
    ELSE c1

\* Fault: every release is dropped with the one that matched.
RemoveLocalDropsAll(c, r) ==
    IF Listed(c, r) THEN [c EXCEPT !.rel = <<>>] ELSE c

\* RemoveReleaseFromNodeImageStatus, lines 506-512: the in-memory change; a
\* nil slice stays nil when nothing was listed.
RemoveLocal(c, r) ==
    IF Listed(c, r) THEN [c EXCEPT !.rel = RemoveFirst(@, r)] ELSE c

\* The operation returns: nil records it as the release's last completed
\* operation.
WorkerDone(outcome) ==
    /\ wpc' = "idle"
    /\ wrel' = NoRelease
    /\ lastOk' = CASE outcome = "add" -> lastOk \cup {wrel}
                   [] outcome = "remove" -> lastOk \ {wrel}
                   [] OTHER -> lastOk

WorkerGoto(pc) ==
    /\ wpc' = pc
    /\ UNCHANGED <<wrel, lastOk>>

\* A worker step that calls i.Status().Update with its in-memory object.
WorkerStatusUpdate(outcome) ==
    /\ IF StatusAccepted(wobj)
       THEN /\ obj' = StatusStored(wobj)
            /\ WorkerDone(outcome)
            /\ act' = Act(wpc, wrel, TRUE, NoReturn)
       ELSE /\ obj' = obj
            /\ WorkerDone("error")
            /\ act' = Act(wpc, wrel, FALSE, NoReturn)
    /\ wobj' = NoCopy
    /\ ni' = Stale(ni, obj' # obj)

\* CreateImage: i.Create, AlreadyExists is not an error.
W_CreateImage(r) ==
    /\ wpc = "idle"
    /\ nOps < MaxOps
    /\ nOps' = nOps + 1
    /\ obj' = IF obj.exists THEN obj ELSE NewObj
    /\ ni' = Stale(ni, obj' # obj)
    /\ wpc' = "addGet"
    /\ wrel' = r
    /\ act' = NoAct
    /\ UNCHANGED <<catalog, now, cfgvars, rpc, todo, cur, inv, wobj, lastOk,
                   transAt, nInv>>

\* AddReleaseToNodeImageStatus: i.Get and the in-memory change.
W_AddGet ==
    /\ wpc = "addGet"
    /\ act' = NoAct
    /\ IF ~obj.exists
       THEN /\ WorkerDone("error")
            /\ wobj' = NoCopy
       ELSE IF Listed(obj, wrel)
       THEN /\ WorkerDone("add")
            /\ wobj' = NoCopy
       ELSE /\ wobj' = AddLocal(GetCopy(obj), wrel)
            /\ WorkerGoto(IF ResetsState(obj) /\ obj.ann # NoAnnotation
                          THEN "addUpdate" ELSE "addStatus")
    /\ UNCHANGED <<obj, catalog, now, cfgvars, rpc, ni, todo, cur, inv,
                   transAt, nInv, nOps>>

\* Line 605: i.Update clears the annotation before the status write.
W_AddUpdate ==
    /\ wpc = "addUpdate"
    /\ act' = NoAct
    /\ IF UpdateAccepted(wobj)
       THEN /\ obj' = UpdateStored(wobj)
            /\ wobj' = UpdateRefresh(wobj, obj')
            /\ WorkerGoto("addStatusRevived")
       ELSE /\ obj' = obj
            /\ wobj' = NoCopy
            /\ WorkerDone("error")
    /\ ni' = Stale(ni, obj' # obj)
    /\ UNCHANGED <<catalog, now, cfgvars, rpc, todo, cur, inv, transAt,
                   nInv, nOps>>

\* Line 613: i.Status().Update
W_AddStatus ==
    /\ wpc \in {"addStatus", "addStatusRevived"}
    /\ WorkerStatusUpdate("add")
    /\ UNCHANGED <<catalog, now, cfgvars, rpc, todo, cur, inv, transAt,
                   nInv, nOps>>

\* RemoveReleaseFromNodeImageStatus: i.Get (NotFound returns nil) and the
\* in-memory change.
W_RemoveGet(r) ==
    /\ wpc = "idle"
    /\ nOps < MaxOps
    /\ nOps' = nOps + 1
    /\ act' = NoAct
    /\ IF ~obj.exists
       THEN /\ wobj' = NoCopy
            /\ lastOk' = lastOk \ {r}
            /\ UNCHANGED <<wpc, wrel>>
       ELSE /\ wobj' = RemoveLocal(GetCopy(obj), r)
            /\ wpc' = "rmStatus"
            /\ wrel' = r
            /\ lastOk' = lastOk
    /\ UNCHANGED <<obj, catalog, now, cfgvars, rpc, ni, todo, cur, inv,
                   transAt, nInv>>

\* Line 515: i.Status().Update
W_RemoveStatus ==
    /\ wpc = "rmStatus"
    /\ WorkerStatusUpdate("remove")
    /\ UNCHANGED <<catalog, now, cfgvars, rpc, todo, cur, inv, transAt,
                   nInv, nOps>>

\* DeleteImage, line 539: the retentionPeriod argument asks for retention.
RetainImage(d) ==
    d > 0

\* DeleteImage, lines 541-547: the in-memory change of the retention branch.
MarkLocal(c, t) ==
    [c EXCEPT !.state = NodeImageAwaitingDeletion, !.ann = FormatRFC3339(t)]

\* DeleteImage, lines 521-554: i.Get (NotFound returns nil), the check of the
\* releases and the branch on retentionPeriod, which callers set to the
\* configured period.
W_DeleteGet ==
    /\ wpc = "idle"
    /\ nOps < MaxOps
    /\ nOps' = nOps + 1
    /\ IF \/ ~obj.exists
          \/ Len(obj.rel) > 0
          \/ RetainImage(retention) /\ obj.state = NodeImageAwaitingDeletion
       THEN /\ wobj' = NoCopy
            /\ wpc' = wpc
            /\ act' = Act("delGet", wrel, TRUE, NoReturn)
       ELSE /\ wobj' = IF RetainImage(retention)
                       THEN MarkLocal(GetCopy(obj), now)
                       ELSE GetCopy(obj)
            /\ wpc' = IF RetainImage(retention) THEN "delUpdate"
                      ELSE "delDelete"
            /\ act' = NoAct
    /\ UNCHANGED <<obj, catalog, now, cfgvars, rpc, ni, todo, cur, inv, wrel,
                   lastOk, transAt, nInv>>

\* DeleteImage, line 549: i.Update writes the annotation.
W_DeleteUpdate ==
    /\ wpc = "delUpdate"
    /\ IF UpdateAccepted(wobj)
       THEN /\ obj' = UpdateStored(wobj)
            /\ wobj' = UpdateRefresh(wobj, obj')
            /\ WorkerGoto("delStatus")
            /\ act' = NoAct
       ELSE /\ obj' = obj
            /\ wobj' = NoCopy
            /\ WorkerDone("error")
            /\ act' = Act("delUpdate", wrel, FALSE, NoReturn)
    /\ ni' = Stale(ni, obj' # obj)
    /\ UNCHANGED <<catalog, now, cfgvars, rpc, todo, cur, inv, transAt,
                   nInv, nOps>>

\* DeleteImage, line 552: i.Status().Update
W_DeleteStatus ==
    /\ wpc = "delStatus"
    /\ WorkerStatusUpdate("delete")
    /\ UNCHANGED <<catalog, now, cfgvars, rpc, todo, cur, inv, transAt,
                   nInv, nOps>>

\* DeleteImage, line 559: i.Delete
W_DeleteDelete ==
    /\ wpc = "delDelete"
    /\ obj' = DeleteStored
    /\ wobj' = NoCopy
    /\ WorkerDone("delete")
    /\ act' = Act("delDelete", wrel, obj.exists, NoReturn)
    /\ ni' = Stale(ni, obj' # obj)
    /\ UNCHANGED <<catalog, now, cfgvars, rpc, todo, cur, inv, transAt,
                   nInv, nOps>>

\* ------------------------------------- release controller: Reconcile
\* r.Providers of the ReleaseReconciler.
ReleaseProviders ==
    {"vsphere"}

\* What a Release is created with.
NewReleases ==
    [exists : {TRUE}, marked : {FALSE}, fin : {FALSE}, components : BOOLEAN,
     provider : {"vsphere", "aws", ""}]

\* r.Get: a copy of the stored Release at its current resourceVersion.
ReleaseCopy(r) ==
    [name |-> r, marked |-> rls[r].marked, fin |-> rls[r].fin, fresh |-> TRUE]

\* A stored change of Release r moves its resourceVersion.
StaleRelease(r) ==
    IF release.name = r THEN [release EXCEPT !.fresh = FALSE] ELSE release

\* GetNodeImageFromRelease: getImageName needs the flatcar, kubernetes and
\* os-tooling components, getImageProvider a provider prefix in the name.
NodeImageFromRelease(o) ==
    o.components /\ o.provider # ""

\* Fault: the reference is registered without the finalizer.
AfterReleaseGetSkipsFinalizer(o) ==
    IF ~o.exists THEN Return(Result(FALSE, 0))
    ELSE IF ~NodeImageFromRelease(o) THEN Return(Result(TRUE, 0))
    ELSE IF o.provider \notin ReleaseProviders THEN Return(Result(FALSE, 0))
    ELSE IF o.marked THEN Continue("relRemove")
    ELSE Continue("relCreate")

\* Lines 156-216: where the release controller's Reconcile goes after r.Get.
AfterReleaseGet(o) ==
    IF ~o.exists THEN Return(Result(FALSE, 0))
    ELSE IF ~NodeImageFromRelease(o) THEN Return(Result(TRUE, 0))
    ELSE IF o.provider \notin ReleaseProviders THEN Return(Result(FALSE, 0))
    ELSE IF o.marked THEN Continue("relRemove")
    ELSE Continue(IF o.fin THEN "relCreate" ELSE "relAddFin")

\* The release controller's Reconcile continues at k or returns k.ret.
ReleaseGoto(k) ==
    /\ wpc' = k.pc
    /\ wrel' = IF k.pc = "idle" THEN NoRelease ELSE wrel
    /\ release' = IF k.pc = "idle" THEN NoReleaseCopy ELSE release

nodeimagevars == <<rpc, todo, cur, inv, nInv, transAt>>

\* r.Get of the Release, the image name, the provider check and the branch on
\* IsDeleted / ContainsFinalizer.
Q_Get(r) ==
    /\ wpc = "idle"
    /\ nOps < MaxOps
    /\ nOps' = nOps + 1
    /\ wpc' = AfterReleaseGet(rls[r]).pc
    /\ wrel' = IF wpc' = "idle" THEN NoRelease ELSE r
    /\ release' = IF wpc' = "idle" THEN NoReleaseCopy ELSE ReleaseCopy(r)
    /\ act' = Act("ReleaseGet", r, rls[r].exists, AfterReleaseGet(rls[r]).ret)
    /\ UNCHANGED <<obj, catalog, now, opvars, rls, ni, nodeimagevars, wobj,
                   lastOk>>

\* Lines 210-216: controllerutil.AddFinalizer and r.Update of the Release.
Q_AddFinalizer ==
    /\ wpc = "relAddFin"
    /\ IF rls[wrel].exists /\ release.fresh
       THEN /\ rls' = [rls EXCEPT ![wrel].fin = TRUE]
            /\ wpc' = "relCreate"
            /\ release' = [release EXCEPT !.fin = TRUE]
            /\ wrel' = wrel
            /\ act' = Act("ReleaseUpdate:addFin", wrel, TRUE, NoReturn)
       ELSE /\ rls' = rls
            /\ ReleaseGoto(Return(Result(TRUE, 0)))
            /\ act' = Act("ReleaseUpdate:addFin", wrel, FALSE, Result(TRUE, 0))
    /\ UNCHANGED <<obj, catalog, now, opvars, ni, nodeimagevars, wobj, lastOk,
                   nOps>>

\* Line 219: CreateImage; AddReleaseToNodeImageStatus follows (line 224).
Q_CreateImage ==
    /\ wpc = "relCreate"
    /\ obj' = IF obj.exists THEN obj ELSE NewObj
    /\ ni' = Stale(ni, obj' # obj)
    /\ wpc' = "addGet"
    /\ act' = NoAct
    /\ UNCHANGED <<catalog, now, opvars, relvars, nodeimagevars, wrel, wobj,
                   lastOk, nOps>>

\* Line 189: RemoveReleaseFromNodeImageStatus, its i.Get (NotFound returns
\* nil) and the in-memory change.
Q_RemoveGet ==
    /\ wpc = "relRemove"
    /\ act' = NoAct
    /\ IF ~obj.exists
       THEN /\ wobj' = NoCopy
            /\ lastOk' = lastOk \ {wrel}
            /\ wpc' = "relDelete"
       ELSE /\ wobj' = RemoveLocal(GetCopy(obj), wrel)
            /\ lastOk' = lastOk
            /\ wpc' = "relRmStatus"
    /\ UNCHANGED <<obj, catalog, now, opvars, relvars, ni, nodeimagevars, wrel,
                   nOps>>

\* Lines 189-191: the error of RemoveReleaseFromNodeImageStatus is returned.
AfterRemove(ok) ==
    IF ok THEN Continue("relDelete") ELSE Return(Result(TRUE, 0))

\* RemoveReleaseFromNodeImageStatus: i.Status().Update
Q_RemoveStatus ==
    /\ wpc = "relRmStatus"
    /\ IF StatusAccepted(wobj)
       THEN /\ obj' = StatusStored(wobj)
            /\ lastOk' = lastOk \ {wrel}
       ELSE /\ obj' = obj
            /\ lastOk' = lastOk
    /\ ReleaseGoto(AfterRemove(StatusAccepted(wobj)))
    /\ act' = Act("relRmStatus", wrel, StatusAccepted(wobj),
                  AfterRemove(StatusAccepted(wobj)).ret)
    /\ wobj' = NoCopy
    /\ ni' = Stale(ni, obj' # obj)
    /\ UNCHANGED <<catalog, now, opvars, rls, nodeimagevars, nOps>>

\* Line 194: DeleteImage, its i.Get (NotFound returns nil) and the check of
\* the releases.
Q_DeleteGet ==
    /\ wpc = "relDelete"
    /\ wpc' = IF ~obj.exists \/ Len(obj.rel) > 0 THEN "relRmFin"
              ELSE "relDeleteImage"
    /\ act' = NoAct
    /\ UNCHANGED <<obj, catalog, now, opvars, relvars, ni, nodeimagevars, wrel,
                   wobj, lastOk, nOps>>

\* DeleteImage: i.Delete of the NodeImage; its error is returned.
Q_DeleteImage ==
    /\ wpc = "relDeleteImage"
    /\ obj' = DeleteStored
    /\ ni' = Stale(ni, obj' # obj)
    /\ ReleaseGoto(IF obj.exists THEN Continue("relRmFin")
                   ELSE Return(Result(TRUE, 0)))
    /\ act' = Act("relDeleteImage", wrel, obj.exists,
                  IF obj.exists THEN NoReturn ELSE Result(TRUE, 0))
    /\ UNCHANGED <<catalog, now, opvars, rls, nodeimagevars, wobj, lastOk,
                   nOps>>

\* Lines 199-206: remove the finalizer with r.Update; the Release, marked for
\* deletion, goes with its last finalizer.
Q_RemoveFinalizer ==
    /\ wpc = "relRmFin"
    /\ IF ~release.fin
       THEN /\ rls' = rls
            /\ act' = Act("ReleaseNoFinalizer", wrel, TRUE, Result(FALSE, 0))
       ELSE IF rls[wrel].exists /\ release.fresh
       THEN /\ rls' = [rls EXCEPT ![wrel] = NoReleaseObj]
            /\ act' = Act("ReleaseUpdate:rmFin", wrel, TRUE, Result(FALSE, 0))
       ELSE /\ rls' = rls
            /\ act' = Act("ReleaseUpdate:rmFin", wrel, FALSE, Result(TRUE, 0))
    /\ ReleaseGoto(Return(act'.ret))
    /\ UNCHANGED <<obj, catalog, now, opvars, ni, nodeimagevars, wobj, lastOk,
                   nOps>>

\* A Release is created by its owner.
U_CreateRelease(r) ==
    /\ ~rls[r].exists
    /\ \E o \in NewReleases : rls' = [rls EXCEPT ![r] = o]
    /\ release' = StaleRelease(r)
    /\ act' = NoAct
    /\ UNCHANGED <<obj, catalog, now, opvars, ni, nodeimagevars, workervars>>

\* A Release is deleted by its owner: a finalizer defers the removal.
U_DeleteRelease(r) ==
    /\ rls[r].exists
    /\ ~rls[r].marked
    /\ rls' = [rls EXCEPT ![r] = IF @.fin THEN [@ EXCEPT !.marked = TRUE]
                                 ELSE NoReleaseObj]
    /\ release' = StaleRelease(r)
    /\ act' = NoAct
    /\ UNCHANGED <<obj, catalog, now, opvars, ni, nodeimagevars, workervars>>

\* ------------------------------------------------------------ environment
\* The clock is read by the retention path only (lines 232, 241, 256), and
\* only relative to a stamp: time is let pass from the moment Reconcile is
\* about to write the first stamp.
ClockObserved ==
    \/ transAt # NoAnnotation
    \/ rpc = "decide" /\ Unreferenced(ni) /\ Retain

Tick ==
    /\ ClockObserved
    /\ now < MaxTime
    /\ now' = now + 1
    /\ act' = NoAct
    /\ UNCHANGED <<obj, catalog, cfgvars, rpc, ni, todo, cur, inv,
                   workervars, transAt, nInv>>

\* The image is removed from a location behind the operator's back (each
\* location at most once).
OutOfBandRemove ==
    /\ \E loc \in catalog \ hist.removed :
          /\ catalog' = catalog \ {loc}
          /\ hist' = [hist EXCEPT !.removed = @ \cup {loc}]
    /\ act' = NoAct
    /\ UNCHANGED <<obj, now, retention, provOK, urlOK, locs, rpc, ni, todo,
                   cur, inv, workervars, transAt, nInv, provvars, relvars>>

\* The invocation is cancelled (ctx) or the process stops: Reconcile makes
\* no further call.  An import that was running may or may not have reached
\* the catalog.
R_Abort ==
    /\ rpc # "idle"
    /\ rpc' = "idle"
    /\ ni' = NoCopy
    /\ todo' = {}
    /\ cur' = NoLoc
    /\ catalog' \in IF rpc = "create"
                    THEN {catalog, catalog \cup {cur}}
                    ELSE {catalog}
    /\ hist' = [hist EXCEPT !.aborted = TRUE]
    /\ act' = Act("Abort", cur, TRUE, NoReturn)
    /\ UNCHANGED <<obj, now, retention, provOK, urlOK, locs, inv, workervars,
                   transAt, nInv, provvars, relvars>>

\* ------------------------------------------------------ provider backends
\* What a backend call meets: an authentication or network failure before the
\* lookup (the datacenter, the catalog), during it, or none.
LookupFaults ==
    {"none", "before", "during"}

\* vsphere GetVMPath: "<folder of the location>/<name>".
GetVMPath(name, loc) ==
    <<loc, name>>

\* vsphere importImage, lines 375-378: the name the template is imported as.
ImportName(name, loc) ==
    IF loc \in suffixed THEN name \o "-" \o ImageSuffix ELSE name

\* getDatacenter, then finder.VirtualMachine(path): the object, a
\* NotFoundError, or another error.
LookupAt(held, fault) ==
    CASE fault = "before" -> "unreachable"
      [] fault = "during" -> "failed"
      [] held -> "found"
      [] OTHER -> "notfound"

Lookup(path, fault) ==
    LookupAt(path \in templates, fault)

\* vsphere Exists, lines 281-291.
VsphereExists(lookup) ==
    CASE lookup = "unreachable" -> "error"
      [] lookup = "found" -> "true"
      [] OTHER -> "false"

\* clouddirector Exists, lines 97-114.
CloudDirectorExists(lookup) ==
    CASE lookup = "found" -> "true"
      [] lookup = "notfound" -> "false"
      [] OTHER -> "error"

\* Fault: an image that is not found is an error of Delete.
VsphereDeleteStrict(lookup, destroyed) ==
    CASE lookup = "found" /\ destroyed -> "nil"
      [] OTHER -> "error"

\* vsphere Delete, lines 300-324.
VsphereDelete(lookup, destroyed) ==
    CASE lookup = "unreachable" -> "error"
      [] lookup = "found" -> IF destroyed THEN "nil" ELSE "error"
      [] OTHER -> "nil"

Called(backend, op, loc, lookup, ret) ==
    /\ nCalls < MaxCalls
    /\ nCalls' = nCalls + 1
    /\ pcall' = [backend |-> backend, op |-> op, loc |-> loc,
                 lookup |-> lookup, ret |-> ret]

othervars == <<obj, catalog, now, retention, provOK, urlOK, locs, hist, rpc,
               ni, todo, cur, inv, workervars, act, transAt, nInv, relvars>>

V_Exists(loc, fault) ==
    LET lookup == Lookup(GetVMPath(ImageName, loc), fault) IN
    /\ Called("vsphere", "Exists", loc, lookup, VsphereExists(lookup))
    /\ UNCHANGED <<templates, suffixed, lastCreate, othervars>>

\* vsphere Create: importImage registers the VM under the import name (an
\* import under a name that is taken fails), processImage marks it as a
\* template.
V_Create(loc, outcome) ==
    LET path == <<loc, ImportName(ImageName, loc)>> IN
    /\ path \in templates => outcome = "importFailed"
    /\ Called("vsphere", "Create", loc, "none",
              IF outcome = "ok" THEN "nil" ELSE "error")
    /\ templates' = IF outcome = "importFailed" THEN templates
                    ELSE templates \cup {path}
    /\ lastCreate' = [lastCreate EXCEPT ![loc] =
                          IF outcome = "ok" \/ @ = "ok" THEN "ok"
                          ELSE "failed"]
    /\ UNCHANGED <<suffixed, othervars>>

V_Delete(loc, fault, destroyed) ==
    LET path == GetVMPath(ImageName, loc)
        lookup == Lookup(path, fault)
        ret == VsphereDelete(lookup, destroyed)
    IN
    /\ Called("vsphere", "Delete", loc, lookup, ret)
    /\ templates' = IF lookup = "found" /\ ret = "nil"
                    THEN templates \ {path} ELSE templates
    /\ lastCreate' = IF ret = "nil" /\ lookup # "failed"
                     THEN [lastCreate EXCEPT ![loc] = "none"]
                     ELSE lastCreate
    /\ UNCHANGED <<suffixed, othervars>>

\* Line 355 with the vsphere backend: prov.Delete looks the image up at the
\* location and destroys it; the catalog keeps what was not destroyed.
R_ProviderDeleteVsphere ==
    /\ rpc = "provDelete"
    /\ \E fault \in LookupFaults, destroyed \in BOOLEAN :
          LET lookup == LookupAt(cur \in catalog, fault)
              ret == VsphereDelete(lookup, destroyed)
          IN
          /\ catalog' = IF lookup = "found" /\ ret = "nil"
                        THEN catalog \ {cur} ELSE catalog
          /\ pcall' = [backend |-> "vsphere", op |-> "Delete", loc |-> cur,
                       lookup |-> lookup, ret |-> ret]
          /\ Local("ProviderDelete", cur, ret = "nil",
                   Continue(AfterDelete(ret = "nil")))
          /\ inv' = [inv EXCEPT !.delCalled = @ \cup {cur},
                                !.delOk = IF ret = "nil" THEN @ \cup {cur}
                                          ELSE @]
    /\ UNCHANGED <<now, retention, provOK, urlOK, locs, hist, wpc, wrel,
                   lastOk, nOps, transAt, nInv, templates, suffixed,
                   lastCreate, nCalls, relvars>>

\* clouddirector Exists: getCatalog, then GetVAppTemplateByName; what the
\* catalog holds is not the operator's doing (Create is empty).
CD_Exists(lookup) ==
    /\ Called("clouddirector", "Exists", NoLoc, lookup,
              CloudDirectorExists(lookup))
    /\ UNCHANGED <<templates, suffixed, lastCreate, othervars>>

\* ------------------------------------------------------------ properties
DeletionCalls ==
    {"Delete", "ProviderDelete", "Update:rmFin"}

StatusAvailable ==
    {"Status:Available", "StatusSkip:Available"}

StatusError ==
    {"Status:Error", "StatusSkip:Error"}

StatusMissing ==
    {"Status:Missing", "StatusSkip:Missing"}

\* The calls of r.Status().Update made by UpdateStatus.
StatusWrites ==
    {"Status:" \o s : s \in {NodeImagePending, NodeImageUploading,
                             NodeImageAvailable, NodeImageMissing,
                             NodeImageError, NodeImageAwaitingDeletion,
                             NodeImageDeleting, NodeImageDeleted}}

ProviderCalled ==
    inv.existsTrue \cup inv.existsFalse \cup inv.failed \cup inv.created

ListedReleases ==
    {obj.rel[i] : i \in 1..Len(obj.rel)}

\* C1: whenever Reconcile issues a Delete of the record, calls Provider.Delete
\* or removes the finalizer, the persisted releases list is empty.
C1_NoDeletionWhileReferenced ==
    act.k \in DeletionCalls => act.relEmpty

\* C2: in one invocation no location where Exists returned true gets a
\* Create; the step after Exists = true is UpdateStatus(Available), which
\* leaves the in-memory state Available and, unless the write is rejected,
\* the persisted state too.
C2_ExistsSkipsCreate ==
    /\ inv.existsTrue \cap inv.created = {}
    /\ act.k = "Exists:true" => rpc = "setAvail"
    /\ (act.k \in StatusAvailable /\ act.loc \in inv.existsTrue)
          => /\ ni.state = NodeImageAvailable
             /\ act.ok => obj.state = NodeImageAvailable

C2_Witness ==
    /\ nInv >= 2
    /\ act.k \in StatusAvailable
    /\ act.loc \in inv.existsTrue
    /\ act.ok
    /\ obj.state = NodeImageAvailable

\* C3: when no reference operation is in flight, the releases listed in a
\* live record are exactly the releases whose last completed operation was
\* an add.
C3_ReleasesAreAddedMinusRemoved ==
    (wpc = "idle" /\ obj.exists /\ ~obj.marked) => ListedReleases = lastOk

\* C4: with a retention period, the record Delete is not issued before the
\* period has elapsed since the moment lastUsedAt was stamped.
C4_NotBeforeRetentionSinceTransition ==
    (act.k = "Delete" /\ Retain) => now >= transAt + RetentionTicks

\* C5: an invocation that evaluates the retention window of an unreferenced
\* record at or after lastUsedAt + D issues the deletion; it re-queues only
\* while now < lastUsedAt + D.
C5_DeletedFromDeadlineOn ==
    act.k = "RequeueAfter" => now < ExpirationTime(ni)

\* C6: an add-reference that finds the record AwaitingDeletion with its
\* last-used stamp and returns nil leaves the release listed, the state
\* Pending and the stamp cleared.
C6_RenewedReferenceCancelsRetention ==
    (act.k = "addStatusRevived" /\ act.ok)
        => /\ act.loc \in ListedReleases
           /\ obj.state = NodeImagePending
           /\ obj.ann = NoAnnotation

\* C7: a brand-new record (no release registered yet) is never the target of
\* a Delete issued by Reconcile and stays without state, stamp and deletion
\* mark, however many invocations run.
C7_BrandNewNeverDeleted ==
    /\ act.k = "Delete" => ~act.brandNew
    /\ (obj.exists /\ obj.relnil)
          => /\ obj.state = NoState
             /\ obj.ann = NoAnnotation
             /\ ~obj.marked

C7_Witness ==
    /\ nInv >= 2
    /\ rpc = "idle"
    /\ act.ret.done
    /\ obj.exists
    /\ obj.relnil
    /\ obj.fin

\* C8: without a retention period, the step of Reconcile that finds no
\* release on a record with a state is the record Delete, and the invocation
\* returns without stamping and without AwaitingDeletion.
C8_ImmediateDelete ==
    [][(rpc = "decide" /\ rpc' # "decide" /\ Unreferenced(ni) /\ retention = 0)
          => /\ act'.k = "Delete"
             /\ rpc' = "idle"
             /\ obj'.ann = NoAnnotation
             /\ obj'.state = obj.state
             /\ obj'.state # NodeImageAwaitingDeletion
             /\ obj.exists => (obj'.marked \/ ~obj'.exists)]_vars

C8_Witness ==
    /\ retention = 0
    /\ act.k = "Delete"
    /\ act.ok
    /\ obj.marked
    /\ obj.state # NodeImageAwaitingDeletion
    /\ obj.ann = NoAnnotation

\* C9: without a retention period and with Provider.Delete succeeding, an
\* unreferenced record is eventually removed (two further invocations are
\* enough), and the finalizer is removed only after Provider.Delete has been
\* called, successfully, at every location.
C9_SweepThenRemoved ==
    /\ (obj.exists /\ Unreferenced(obj) /\ nInv + 2 <= MaxInvocations)
          ~> ~obj.exists
    /\ []((act.k = "Update:rmFin" /\ act.ok)
             => /\ ~obj.exists
                /\ inv.delCalled = Locations
                /\ inv.delOk = Locations
                /\ act.relEmpty)

C9_Witness ==
    /\ act.k = "Update:rmFin"
    /\ act.ok
    /\ ~obj.exists
    /\ inv.delCalled = Locations
    /\ catalog = {}

\* C10: with a configured provider the finalizer is removed only in an
\* invocation in which Provider.Delete succeeded at every location; a failed
\* Delete is followed by UpdateStatus(Error), which ends the invocation with
\* an error and leaves the finalizer in place.
C10_FinalizerNeedsEveryDelete ==
    /\ (act.k = "Update:rmFin" /\ provOK) => inv.delOk = DeleteLocations
    /\ (act.k = "ProviderDelete" /\ ~act.ok) => rpc = "delErr"
    /\ (act.k \in StatusError /\ ni.marked)
          => /\ act.ret.done
             /\ act.ret.err
             /\ ni.state = NodeImageError
             /\ act.ok => obj.state = NodeImageError
             /\ obj.exists
             /\ obj.fin

C10_Witness ==
    /\ act.k = "Status:Error"
    /\ act.ok
    /\ ni.marked
    /\ inv.delCalled # inv.delOk
    /\ inv.delOk # {}
    /\ obj.fin
    /\ obj.state = NodeImageError

\* C11: an invocation of the deletion sweep in which a Provider.Delete failed
\* has nevertheless called Provider.Delete at every location by the time it
\* returns.
C11_FailedDeleteKeepsSweeping ==
    (act.ret.done /\ inv.delCalled # inv.delOk)
        => inv.delCalled = DeleteLocations

\* C12: once Exists or Create has failed at a location, the invocation only
\* calls UpdateStatus(Error) and returns the error: the state is Error in
\* memory and, unless the write is rejected, in the record; no other location
\* is probed or uploaded afterwards.
C12_CreateFailureAborts ==
    /\ inv.failed # {} => rpc \in {"setErr", "idle"}
    /\ Cardinality(inv.failed) <= 1
    /\ (act.k \in StatusError /\ act.loc \in inv.failed)
          => /\ act.ret.done
             /\ act.ret.err
             /\ ni.state = NodeImageError
             /\ act.ok => obj.state = NodeImageError

C12_Witness ==
    /\ act.k = "Status:Error"
    /\ act.ok
    /\ act.loc \in inv.failed
    /\ inv.created = {act.loc}
    /\ inv.existsFalse = {act.loc}
    /\ inv.existsTrue = {}
    /\ obj.state = NodeImageError
    /\ rpc = "idle"

\* C13: Create is called only for a location whose Exists returned false in
\* this invocation, once, with Uploading in the record; a successful Create
\* is followed by UpdateStatus(Available), persisted unless rejected; the
\* invocation that finishes the loop returns no error and the five-minute
\* re-queue, having created every location that was absent.
C13_UploadThenAvailable ==
    /\ rpc = "create"
          => /\ ni.state = NodeImageUploading
             /\ obj.state = NodeImageUploading
             /\ cur \in inv.existsFalse
             /\ cur \notin inv.created
    /\ (act.k = "Create" /\ act.ok) => rpc = "setAvail"
    /\ (act.k = "Status:Available" /\ act.ok)
          => obj.state = NodeImageAvailable
    /\ act.k = "Done"
          => /\ act.ret = Return(DefaultRequeue).ret
             /\ ~act.ret.err
             /\ act.ret.after = 5 * 60 * TicksPerSecond
             /\ inv.created = inv.existsFalse
             /\ inv.created \cup inv.existsTrue = Locations
             /\ inv.failed = {}

C13_Witness ==
    /\ Locations = {"dc1"}
    /\ act.k = "Done"
    /\ nInv = 1
    /\ inv.created = {"dc1"}
    /\ catalog = {"dc1"}
    /\ obj.state = NodeImageAvailable
    /\ ni.state = NodeImageAvailable

\* C14: after a failed probe of the source for a location the invocation only
\* calls UpdateStatus(Missing) and returns: neither Exists nor Create is
\* called for that location or a later one; when the write is accepted the
\* record's state is Missing and Reconcile returns no error with the fixed
\* re-check delay, when it is rejected Reconcile returns the error.
C14_ProbeFailureMeansMissing ==
    /\ inv.missing # {}
          => /\ rpc \in {"setMissing", "idle"}
             /\ inv.missing \cap ProviderCalled = {}
             /\ Cardinality(inv.missing) = 1
    /\ act.k = "Head" => rpc = "setMissing"
    /\ (act.k \in StatusMissing /\ act.ok)
          => /\ ni.state = NodeImageMissing
             /\ obj.state = NodeImageMissing
             /\ act.ret.done
             /\ ~act.ret.err
             /\ act.ret.after = DefaultRequeueSeconds * TicksPerSecond
    /\ (act.k \in StatusMissing /\ ~act.ok)
          => /\ act.ret.done
             /\ act.ret.err

C14_Witness ==
    /\ act.k = "Status:Missing"
    /\ act.ok
    /\ act.loc \in inv.missing
    /\ ProviderCalled = {}
    /\ obj.state = NodeImageMissing
    /\ rpc = "idle"
    /\ act.ret.after > 0

\* C15: a pass that finishes the loop returns no error and the five-minute
\* re-queue; when the image was removed out-of-band from a location and a
\* further invocation is still to start, Exists returns false there and
\* Create is called again for that location.
C15_RequeueHeals ==
    /\ [](act.k = "Done"
             => /\ ~act.ret.err
                /\ act.ret.after = 5 * 60 * TicksPerSecond)
    /\ \A l \in AllLocations :
          (l \in hist.removed /\ l \notin catalog /\ nInv < MaxInvocations)
             ~> (act.k = "Create" /\ act.loc = l /\ l \in inv.existsFalse)

C15_Witness ==
    /\ act.k = "Create"
    /\ act.ok
    /\ act.loc \in hist.removed
    /\ act.loc \in inv.existsFalse
    /\ act.loc \in catalog
    /\ nInv >= 2

\* C16: every Create is preceded, in its own invocation, by an Exists for
\* that location that returned false, and is never made for a location that
\* holds the image, whatever invocations were aborted before.
C16_ExistsBeforeEveryCreate ==
    /\ act.k = "Create"
          => /\ act.loc \in inv.existsFalse
             /\ ~act.held
    /\ rpc \in {"setUploading", "create"} => cur \in inv.existsFalse
    /\ act.k = "Get" => ProviderCalled = {}

C16_Witness ==
    /\ hist.aborted
    /\ obj.state = NodeImageUploading
    /\ act.k = "Exists:true"
    /\ rpc = "setAvail"
    /\ inv.created = {}

\* C17: when the provider is not configured, the normal path writes Error,
\* calls no provider, returns no error and asks for a re-queue.
C17_UnconfiguredProviderRequeues ==
    (act.k \in StatusError /\ act.ok /\ ~provOK /\ ~ni.marked)
        => /\ ni.state = NodeImageError
           /\ obj.state = NodeImageError
           /\ ProviderCalled = {}
           /\ act.ret.done
           /\ ~act.ret.err
           /\ act.ret.after > 0

\* C18: for a record marked for deletion whose provider is not configured,
\* Reconcile goes from r.Get to the finalizer removal without any
\* Provider.Delete; the accepted removal ends the record and the invocation
\* returns no error.
C18_UnconfiguredProviderStillFinalizes ==
    /\ (act.k = "Get" /\ ni.marked /\ ~provOK) => rpc = "rmFin"
    /\ ~provOK => inv.delCalled = {}
    /\ (act.k = "Update:rmFin" /\ act.ok /\ ~provOK)
          => /\ ~obj.exists
             /\ act.ret.done
             /\ ~act.ret.err

C18_Witness ==
    /\ ~provOK
    /\ act.k = "Update:rmFin"
    /\ act.ok
    /\ ~obj.exists
    /\ inv.delCalled = {}
    /\ rpc = "idle"

\* C19: when the source URL is not valid, Reconcile returns an error, calls
\* no provider, and the record's state is Error.
C19_InvalidURLSurfacesError ==
    act.k = "InvalidURL"
        => /\ act.ret.done
           /\ act.ret.err
           /\ ProviderCalled = {}
           /\ obj.state = NodeImageError

\* C20: a rejected status write is followed by nothing but the
\* UpdateStatus(Error) of the error path, and the invocation returns an
\* error: no Exists, Create or Delete comes after it.
C20_StatusFailureStops ==
    [][/\ (act'.k \in StatusWrites /\ ~act'.ok)
             => \/ rpc' \in {"setErr", "delErr"}
                \/ act'.ret.done /\ act'.ret.err
       /\ (rpc \in {"setErr", "delErr"} /\ rpc' # rpc)
             => /\ act'.k \in StatusError
                /\ act'.ret.done
                /\ act'.ret.err]_vars

C20_Witness ==
    /\ act.k = "Status:Uploading"
    /\ ~act.ok
    /\ rpc = "setErr"
    /\ inv.created = {}
    /\ ni.state = NodeImageUploading
    /\ obj.state # NodeImageUploading

\* C21: in every persisted state of the record the last-used annotation is
\* present exactly when the state is AwaitingDeletion and a retention period
\* is configured.
C21_StampIffAwaitingDeletion ==
    obj.exists
        => ((obj.ann # NoAnnotation)
               <=> (obj.state = NodeImageAwaitingDeletion /\ Retain))

\* How often release r is listed.
Count(l, r) ==
    Cardinality({i \in 1..Len(l) : l[i] = r})

\* C22: CreateImage leaves an existing record as it is and returns with the
\* record present; an AddReleaseToNodeImageStatus that returns nil leaves the
\* record with its release listed exactly once and every release that was
\* listed before still listed once.
C22_AddIsIdempotentAndKeepsOthers ==
    [][/\ (wpc = "idle" /\ wpc' = "addGet")
             => /\ obj'.exists
                /\ obj.exists => obj' = obj
       /\ (\/ wpc = "addGet" /\ wpc' = "idle" /\ obj.exists
           \/ wpc \in {"addStatus", "addStatusRevived"} /\ act'.ok)
             => /\ obj'.exists
                /\ Count(obj'.rel, wrel) = 1
                /\ \A r \in Releases \ {wrel} :
                      Count(obj'.rel, r) = Count(obj.rel, r)]_vars

\* The list without release r, the others in their order.
Without(l, r) ==
    SelectSeq(l, LAMBDA x : x # r)

\* C23: a RemoveReleaseFromNodeImageStatus that returns nil leaves the
\* releases without its release and with every other release as before; on an
\* absent record it and DeleteImage return nil and create nothing; DeleteImage
\* without retention deletes a record that lists no release and keeps, as it
\* is, a record that lists one.
C23_RemoveKeepsOthers ==
    [][/\ (wpc = "rmStatus" /\ act'.ok)
             => /\ obj'.rel = Without(obj.rel, wrel)
                /\ [obj' EXCEPT !.rel = obj.rel] = obj
       /\ (wpc = "idle" /\ nOps' # nOps /\ wpc' # "addGet" /\ ~obj.exists)
             => /\ wpc' = "idle"
                /\ obj' = obj
                /\ act'.ok
       /\ (wpc = "idle" /\ act'.k = "delGet" /\ Len(obj.rel) > 0)
             => /\ wpc' = "idle"
                /\ obj' = obj
       /\ (wpc = "idle" /\ nOps' # nOps /\ wpc' = "idle" /\ act'.k = "delGet"
           /\ ~RetainImage(retention))
             => (~obj.exists \/ Len(obj.rel) > 0)
       /\ wpc = "delDelete"
             => /\ act'.ok
                /\ Len(obj.rel) = 0
                /\ obj'.marked \/ ~obj'.exists]_vars

C23_Witness ==
    /\ act.k = "delDelete"
    /\ act.ok
    /\ ~obj.exists
    /\ nOps = 2
    /\ lastOk = {}
    /\ retention = 0

\* C24: DeleteImage on an existing record changes nothing while a release is
\* listed; with no release listed and no retention it deletes the record;
\* with no release listed and a retention period it returns nil with the
\* record kept, its state AwaitingDeletion and a whole-second last-used stamp.
C24_DeleteImageByRetention ==
    [][/\ (wpc = "idle" /\ act'.k = "delGet" /\ Len(obj.rel) > 0)
             => obj' = obj
       /\ (wpc = "delDelete" /\ act'.ok)
             => /\ ~RetainImage(retention)
                /\ obj'.marked \/ ~obj'.exists
       /\ (RetainImage(retention) /\ obj.exists /\ Len(obj.rel) = 0
           /\ \/ wpc = "idle" /\ act'.k = "delGet"
              \/ wpc = "delStatus" /\ act'.ok)
             => /\ obj'.exists
                /\ ~obj'.marked
                /\ obj'.state = NodeImageAwaitingDeletion
                /\ obj'.ann # NoAnnotation
                /\ obj'.ann % TicksPerSecond = 0]_vars

\* C25: Exists of a backend returns false only when the lookup reported
\* not-found, and an error whenever the lookup failed.
C25_ExistsFalseOnlyWhenNotFound ==
    pcall.op = "Exists"
        => /\ pcall.ret = "false" => pcall.lookup = "notfound"
           /\ pcall.lookup \in {"failed", "unreachable"} => pcall.ret = "error"

\* C26: Delete on an image that is not at the location returns nil; a sweep
\* that finds the image already removed goes on to UpdateStatus(Deleted), an
\* invocation of the sweep returns an error only when the backend could not
\* be reached or a present image could not be destroyed, and the finalizer
\* removal that ends the sweep is accepted and returns no error.
C26_DeleteOfAbsentImageSucceeds ==
    /\ (pcall.op = "Delete" /\ pcall.lookup = "notfound") => pcall.ret = "nil"
    /\ (act.k = "ProviderDelete" /\ ~act.held /\ pcall.lookup # "unreachable")
          => /\ act.ok
             /\ rpc = "setDeleted"
    /\ (act.ret.done /\ act.ret.err)
          => /\ pcall.ret = "error"
             /\ pcall.lookup \in {"unreachable", "found"}
    /\ act.k = "Update:rmFin"
          => /\ act.ok
             /\ ~act.ret.err
             /\ ~obj.exists
             /\ inv.delOk = Locations

C26_Witness ==
    /\ hist.aborted
    /\ nInv >= 2
    /\ act.k = "Update:rmFin"
    /\ ~obj.exists
    /\ pcall.op = "Delete"
    /\ pcall.lookup = "notfound"
    /\ inv.delOk = Locations

\* C27: every return of the normal path asks for another invocation (an
\* error or a RequeueAfter), and once the failures have ceased the record
\* becomes, and stays, Available with the image at every location.
C27_EventuallyAvailableEverywhere ==
    /\ [](act.ret.done => (act.ret.err \/ act.ret.after > 0))
    /\ <>[](obj.state = NodeImageAvailable /\ catalog = Locations)

C27_Witness ==
    /\ nInv = MaxInvocations
    /\ act.k = "Done"
    /\ inv.created # {}
    /\ inv.existsTrue # {}
    /\ obj.state = NodeImageAvailable
    /\ catalog = Locations

\* C28: in the vSphere backend, while the last Create at a location succeeded
\* its template is what Exists finds (true, when the lookup works) and what
\* an accepted Delete removes; while the last Create failed and none had
\* succeeded, Exists returns false.  Locations with an image suffix included.
C28_VsphereCallsAgreeOnName ==
    /\ (pcall.backend = "vsphere" /\ pcall.op = "Exists"
        /\ pcall.lookup \in {"found", "notfound"})
          => /\ lastCreate[pcall.loc] = "ok" => pcall.ret = "true"
             /\ lastCreate[pcall.loc] = "failed" => pcall.ret = "false"
    /\ \A l \in AllLocations :
          lastCreate[l] = "none"
             => <<l, ImportName(ImageName, l)>> \notin templates

\* C29: the invocation that finds no release on a record with a state, with a
\* retention period, stamps lastUsedAt with the current time, then persists
\* AwaitingDeletion and returns RequeueAfter = the period; it calls no
\* provider and leaves the record undeleted.
C29_FirstObservationStampsNow ==
    /\ (act.k = "Update:stamp" /\ act.ok)
          => /\ obj.ann = now
             /\ rpc = "markAwait"
    /\ (act.k = "Status:" \o NodeImageAwaitingDeletion /\ act.ok)
          => /\ obj.state = NodeImageAwaitingDeletion
             /\ obj.ann # NoAnnotation
             /\ act.ret.done
             /\ ~act.ret.err
             /\ act.ret.after = RetentionTicks
             /\ ProviderCalled = {}
             /\ inv.delCalled = {}
             /\ obj.exists
             /\ ~obj.marked

\* C30: an invocation that finds the record awaiting deletion with a valid
\* stamp and does not delete it changes nothing in the record, calls no
\* provider and returns RequeueAfter = lastUsedAt + period - now, which is
\* strictly positive.
C30_RemainingTimeIsPositive ==
    [][act'.k = "RequeueAfter"
          => /\ obj' = obj
             /\ ProviderCalled' = {}
             /\ inv'.delCalled = {}
             /\ act'.ret.done
             /\ ~act'.ret.err
             /\ act'.ret.after = ExpirationTime(ni) - now
             /\ act'.ret.after > 0]_vars

\* C31: the status Deleted is written only in an invocation whose
\* Provider.Delete has succeeded at every location, and a record whose state
\* is Deleted keeps that state for as long as it exists.
C31_DeletedIsLastAndTerminal ==
    [][/\ (act'.k = "Status:" \o NodeImageDeleted /\ act'.ok)
             => inv'.delOk = DeleteLocations
       /\ (obj.exists /\ obj.state = NodeImageDeleted /\ obj'.exists)
             => obj'.state = NodeImageDeleted]_vars

NodeImageStates ==
    {NodeImagePending, NodeImageUploading, NodeImageAvailable,
     NodeImageMissing, NodeImageError, NodeImageAwaitingDeletion,
     NodeImageDeleting, NodeImageDeleted}

\* C32: a call of UpdateStatus(s) issues r.Status().Update exactly when s
\* differs from the state the record has in the store at that moment; a pass
\* that finds the record Available and the image at every location issues no
\* status write.
C32_WritesIffPersistedDiffers ==
    [][/\ \A s \in NodeImageStates :
             /\ act'.k = "Status:" \o s => obj.state # s
             /\ act'.k = "StatusSkip:" \o s => obj.state = s
       /\ (rpc = "setAvail" /\ rpc' # rpc /\ obj.state = NodeImageAvailable)
             => /\ act'.k = "StatusSkip:" \o NodeImageAvailable
                /\ obj' = obj]_vars

\* C32, amended: UpdateStatus(s) issues the write exactly when s differs from
\* the state of its in-memory object; it skips only when the stored state is
\* s too, an accepted write changes the stored state to s, and a pass that
\* finds the record Available and the image at a location issues no write.
C32_WritesIffInMemoryDiffers ==
    [][/\ \A s \in NodeImageStates :
             /\ act'.k = "Status:" \o s => ni.state # s
             /\ act'.k = "StatusSkip:" \o s
                   => /\ ni.state = s
                      /\ obj.state = s
                      /\ obj' = obj
             /\ (act'.k = "Status:" \o s /\ act'.ok)
                   => /\ obj.state # s
                      /\ obj'.state = s
       /\ (rpc = "setAvail" /\ rpc' # rpc /\ obj.state = NodeImageAvailable)
             => /\ act'.k = "StatusSkip:" \o NodeImageAvailable
                /\ obj' = obj]_vars

C32_Witness ==
    /\ act.k = "Status:" \o NodeImageError
    /\ ~act.ok
    /\ ni.state = NodeImageError
    /\ obj.state = NodeImageError
    /\ obj.exists
    /\ rpc = "idle"

C34_UnconfiguredReleaseIsLeftAlone ==
    [][(act'.k = "ReleaseGet" /\ rls[act'.loc].exists
        /\ rls[act'.loc].provider \notin ReleaseProviders \cup {""})
          => /\ obj' = obj
             /\ rls' = rls
             /\ wpc' = "idle"
             /\ act'.ret.done
             /\ ~act'.ret.err
             /\ act'.ret.after = 0]_vars

\* C35: every release listed in the NodeImage's releases names a Release that
\* exists and carries the release-controller finalizer; the finalizer is
\* removed only by a Reconcile whose RemoveReleaseFromNodeImageStatus and
\* DeleteImage returned nil.
C35_ListedReleaseHoldsFinalizer ==
    /\ \A r \in ListedReleases : rls[r].exists /\ rls[r].fin
    /\ wpc \in {"relDelete", "relDeleteImage", "relRmFin"}
          => wrel \notin ListedReleases
    /\ (act.k = "relRmStatus" /\ ~act.ok) => wpc = "idle"
    /\ wpc \in {"addGet", "addUpdate", "addStatus", "addStatusRevived"}
          => rls[wrel].exists /\ rls[wrel].fin

C35_Witness ==
    /\ act.k = "ReleaseUpdate:rmFin"
    /\ act.ok
    /\ ~rls[act.loc].exists
    /\ act.loc \notin ListedReleases
    /\ obj.exists
    /\ ListedReleases # {}

\* C36: while the stored state is Available (and nothing was taken out of
\* the catalog behind the operator's back) the image is at every location of
\* the provider.
C36_AvailableMeansEverywhere ==
    (obj.exists /\ obj.state = NodeImageAvailable /\ hist.removed = {})
        => catalog = Locations

\* C37: Provider.Create is called only while the stored record carries the
\* NodeImage finalizer; when the Update that adds the finalizer fails the
\* invocation returns the error and has called no provider.
C37_CreateOnlyUnderFinalizer ==
    [][/\ act'.k = "Create" => (obj.exists /\ obj.fin /\ ni.fin)
       /\ rpc' \in {"setUploading", "create"} => (obj'.exists /\ obj'.fin)
       /\ (act'.k = "Update:addFin" /\ ~act'.ok)
             => /\ act'.ret.done
                /\ act'.ret.err
                /\ rpc' = "idle"
                /\ ProviderCalled' = {}
                /\ catalog' = catalog]_vars

C37_Witness ==
    /\ nInv = 1
    /\ act.k = "Create"
    /\ act.ok
    /\ obj.fin
    /\ act.loc \in catalog
    /\ hist.removed = {}

ProviderUploadCalls ==
    {"Exists:true", "Exists:false", "Exists:error", "Create"}

\* C38: while the stored record is marked for deletion Reconcile calls
\* neither Provider.Exists nor Provider.Create and does not add the finalizer.
C38_NoUploadOnceMarked ==
    [][act'.k \in ProviderUploadCalls \cup {"Update:addFin"}
          => ~obj.marked]_vars

\* C38, amended: an invocation that reads the record marked for deletion
\* goes to the deletion sweep (or straight to the finalizer removal), calls
\* neither Provider.Exists nor Provider.Create and does not add the
\* finalizer; an upload under way when the mark arrives is made on a record
\* that keeps its finalizer.
C38_MarkedInvocationOnlySweeps ==
    [][/\ act'.k \in ProviderUploadCalls \cup {"Update:addFin"}
             => /\ ~ni.marked
                /\ act'.k = "Create" => obj.fin
       /\ (act'.k = "Get" /\ obj.exists /\ obj.marked)
             => /\ ni'.marked
                /\ rpc' \in {"delLoop", "rmFin"}
       /\ (ni'.marked /\ rpc' # "idle")
             => /\ ProviderCalled' = {}
                /\ rpc' \in {"delLoop", "provDelete", "setDeleted",
                             "delErr", "rmFin"}]_vars

C38_Witness ==
    /\ act.k = "ProviderDelete"
    /\ act.ok
    /\ ni.marked
    /\ obj.marked
    /\ inv.created = {}
    /\ obj.state = NodeImageDeleting
    /\ nInv >= 2

\* The stored record is unreferenced, awaiting deletion and carries a
\* parsable last-used annotation.
RetentionRunning ==
    /\ obj.exists
    /\ obj.state = NodeImageAwaitingDeletion
    /\ obj.ann # NoAnnotation
    /\ Len(obj.rel) = 0

\* C39: while the record is unreferenced in AwaitingDeletion with a valid
\* last-used annotation no step of Reconcile or DeleteImage changes the
\* annotation; the only step that touches it is the Update of
\* AddReleaseToNodeImageStatus, which removes it when a reference is added.
C39_RetentionDeadlineKept ==
    [][(RetentionRunning /\ obj'.exists)
          => \/ obj'.ann = obj.ann
             \/ /\ wpc = "addUpdate"
                /\ obj'.ann = NoAnnotation]_vars

C39_Witness ==
    /\ RetentionRunning
    /\ act.k = "delGet"
    /\ transAt # NoAnnotation
    /\ now > ParseRFC3339(obj.ann)
    /\ nInv >= 2

Next ==
    \/ R_Get
    \/ R_AddFinalizer
    \/ R_AwaitingDeletion
    \/ R_Unreferenced
    \/ R_MarkAwaiting
    \/ R_InvalidURL
    \/ R_NoProvider
    \/ R_ImageUnavailable
    \/ R_LoopDone
    \/ R_SetMissing
    \/ R_Exists
    \/ R_SetAvailable
    \/ R_SetUploading
    \/ R_Create
    \/ R_SetError
    \/ R_SetDeleting
    \/ R_ProviderDelete
    \/ R_SetDeleted
    \/ R_DeleteError
    \/ R_RemoveFinalizer
    \/ \E r \in Releases : W_CreateImage(r)
    \/ W_AddGet
    \/ W_AddUpdate
    \/ W_AddStatus
    \/ \E r \in Releases : W_RemoveGet(r)
    \/ W_RemoveStatus
    \/ Tick

Spec == Init /\ [][Next]_vars

\* ------------------------------------------- deletion without retention
\* The record after the first release was registered, no retention period,
\* a configured provider whose Delete succeeds; the release controller only
\* removes references.
InitSweep ==
    /\ obj = [NewObj EXCEPT !.state = NodeImagePending, !.rel = <<"v1">>,
                            !.relnil = FALSE]
    /\ locs = AllLocations
    /\ hist = NoHist
    /\ catalog \in {{}, locs}
    /\ now = 0
    /\ retention = 0
    /\ provOK = TRUE
    /\ urlOK = TRUE
    /\ rpc = "idle"
    /\ ni = NoCopy
    /\ todo = {}
    /\ cur = NoLoc
    /\ inv = NoInv
    /\ wpc = "idle"
    /\ wrel = NoRelease
    /\ wobj = NoCopy
    /\ lastOk = {"v1"}
    /\ act = NoAct
    /\ transAt = NoAnnotation
    /\ nInv = 0
    /\ nOps = 1
    /\ BackendUnused
    /\ ReleasesAbsent

R_ProviderDeleteOk ==
    R_ProviderDelete /\ act'.ok

ReconcileSweep ==
    \/ R_Get
    \/ R_AddFinalizer
    \/ R_Unreferenced
    \/ R_ImageUnavailable
    \/ R_LoopDone
    \/ R_SetMissing
    \/ R_Exists
    \/ R_SetAvailable
    \/ R_SetUploading
    \/ R_Create
    \/ R_SetError
    \/ R_SetDeleting
    \/ R_ProviderDeleteOk
    \/ R_SetDeleted
    \/ R_RemoveFinalizer

NextSweep ==
    \/ ReconcileSweep
    \/ \E r \in Releases : W_RemoveGet(r)
    \/ W_RemoveStatus

\* A started invocation runs to its return, and the changes of the record
\* (the removed reference, the deletion mark) each queue a further one.
SpecSweep == InitSweep /\ [][NextSweep]_vars /\ WF_vars(ReconcileSweep)

\* ------------------------------------------ a referenced image, with faults
\* The record stays referenced (the release controller is quiet); the source
\* probe, Exists and Create may fail, invocations may be aborted and the
\* catalog may lose the image out-of-band.
R_ExistsOk ==
    R_Exists /\ act'.ok

R_CreateOk ==
    R_Create /\ act'.ok

NextFaults ==
    \/ R_Get
    \/ R_AddFinalizer
    \/ R_ImageUnavailable
    \/ R_Exists
    \/ R_LoopDone
    \/ R_SetMissing
    \/ R_SetAvailable
    \/ R_SetUploading
    \/ R_Create
    \/ R_SetError
    \/ R_Abort
    \/ OutOfBandRemove

SpecFaults == InitSweep /\ [][NextFaults]_vars

\* The same without failures and aborts: every pass ends with the re-queue
\* that starts the next one.
ReconcileHeal ==
    \/ R_Get
    \/ R_AddFinalizer
    \/ R_ExistsOk
    \/ R_LoopDone
    \/ R_SetAvailable
    \/ R_SetUploading
    \/ R_CreateOk

NextHeal ==
    \/ ReconcileHeal
    \/ OutOfBandRemove

SpecHeal == InitSweep /\ [][NextHeal]_vars /\ WF_vars(ReconcileHeal)

\* ------------------------------------------- the reference operations alone
\* Orderings of the releases of a record.
ReleaseLists ==
    {<<>>, <<"v1">>, <<"v2">>, <<"v1", "v2">>, <<"v2", "v1">>}

\* The records the operator leaves in the store: none, a record just created,
\* a record with a status, a record awaiting deletion with its stamp.
StoredRecords ==
    {NoObj}
    \cup {[NewObj EXCEPT !.fin = f] : f \in BOOLEAN}
    \cup {[NewObj EXCEPT !.fin = f, !.state = s, !.rel = l, !.relnil = FALSE] :
             f \in BOOLEAN,
             s \in {NodeImagePending, NodeImageAvailable, NodeImageError},
             l \in ReleaseLists}
    \cup {[NewObj EXCEPT !.fin = TRUE, !.state = NodeImageAwaitingDeletion,
                         !.ann = 0, !.relnil = FALSE]}

\* The calls of pkg/image Client made one after the other, as the release
\* controller and client_test.go make them, on each kind of record.
InitClient ==
    /\ obj \in StoredRecords
    /\ locs = AllLocations
    /\ hist = NoHist
    /\ catalog = {}
    /\ now \in 0..MaxTime
    /\ retention \in {0, RetentionSeconds}
    /\ obj.state = NodeImageAwaitingDeletion => Retain
    /\ provOK = TRUE
    /\ urlOK = TRUE
    /\ rpc = "idle"
    /\ ni = NoCopy
    /\ todo = {}
    /\ cur = NoLoc
    /\ inv = NoInv
    /\ wpc = "idle"
    /\ wrel = NoRelease
    /\ wobj = NoCopy
    /\ lastOk = ListedReleases
    /\ act = NoAct
    /\ transAt = NoAnnotation
    /\ nInv = 0
    /\ nOps = 0
    /\ BackendUnused
    /\ ReleasesAbsent

NextClient ==
    \/ \E r \in Releases : W_CreateImage(r)
    \/ W_AddGet
    \/ W_AddUpdate
    \/ W_AddStatus
    \/ \E r \in Releases : W_RemoveGet(r)
    \/ W_RemoveStatus
    \/ W_DeleteGet
    \/ W_DeleteUpdate
    \/ W_DeleteStatus
    \/ W_DeleteDelete

SpecClient == InitClient /\ [][NextClient]_vars

\* ----------------------------------------------- the provider backends alone
\* An empty inventory, any of the locations configured with an image suffix.
InitProvider ==
    /\ obj = NoObj
    /\ locs = AllLocations
    /\ hist = NoHist
    /\ catalog = {}
    /\ now = 0
    /\ retention = 0
    /\ provOK = TRUE
    /\ urlOK = TRUE
    /\ rpc = "idle"
    /\ ni = NoCopy
    /\ todo = {}
    /\ cur = NoLoc
    /\ inv = NoInv
    /\ wpc = "idle"
    /\ wrel = NoRelease
    /\ wobj = NoCopy
    /\ lastOk = {}
    /\ act = NoAct
    /\ transAt = NoAnnotation
    /\ nInv = 0
    /\ nOps = 0
    /\ templates = {}
    /\ suffixed \in SUBSET AllLocations
    /\ pcall = NoCall
    /\ lastCreate = [l \in AllLocations |-> "none"]
    /\ nCalls = 0
    /\ ReleasesAbsent

NextProvider ==
    \/ \E loc \in AllLocations, fault \in LookupFaults : V_Exists(loc, fault)
    \/ \E loc \in AllLocations,
          outcome \in {"importFailed", "markFailed", "ok"} :
             V_Create(loc, outcome)
    \/ \E loc \in AllLocations, fault \in LookupFaults, destroyed \in BOOLEAN :
          V_Delete(loc, fault, destroyed)
    \/ \E lookup \in {"found", "notfound", "failed", "unreachable"} :
          CD_Exists(lookup)

SpecProvider == InitProvider /\ [][NextProvider]_vars

\* ------------------------------------------------- the sweep, run again
\* A record marked for deletion whose image is at every location; the sweep
\* calls the vsphere backend, and invocations may be aborted at any call.
InitResweep ==
    /\ obj = [NewObj EXCEPT !.marked = TRUE, !.fin = TRUE,
                            !.state = NodeImageAvailable, !.relnil = FALSE]
    /\ locs = AllLocations
    /\ hist = NoHist
    /\ catalog = locs
    /\ now = 0
    /\ retention = 0
    /\ provOK = TRUE
    /\ urlOK = TRUE
    /\ rpc = "idle"
    /\ ni = NoCopy
    /\ todo = {}
    /\ cur = NoLoc
    /\ inv = NoInv
    /\ wpc = "idle"
    /\ wrel = NoRelease
    /\ wobj = NoCopy
    /\ lastOk = {}
    /\ act = NoAct
    /\ transAt = NoAnnotation
    /\ nInv = 0
    /\ nOps = 0
    /\ BackendUnused
    /\ ReleasesAbsent

NextResweep ==
    \/ R_Get
    \/ R_SetDeleting
    \/ R_ProviderDeleteVsphere
    \/ R_SetDeleted
    \/ R_DeleteError
    \/ R_RemoveFinalizer
    \/ R_Abort

SpecResweep == InitResweep /\ [][NextResweep]_vars

\* ------------------------------------------------ failures that cease
\* The source probe, Exists and Create may fail in every invocation but the
\* last one that is modelled: from then on the source is reachable and the
\* provider calls succeed.
Settled ==
    nInv = MaxInvocations

R_ImageUnavailableAtFirst ==
    ~Settled /\ R_ImageUnavailable

R_ExistsAtLast ==
    R_Exists /\ (Settled => act'.ok)

R_CreateAtLast ==
    R_Create /\ (Settled => act'.ok)

ReconcileRetry ==
    \/ R_Get
    \/ R_AddFinalizer
    \/ R_ImageUnavailableAtFirst
    \/ R_ExistsAtLast
    \/ R_LoopDone
    \/ R_SetMissing
    \/ R_SetAvailable
    \/ R_SetUploading
    \/ R_CreateAtLast
    \/ R_SetError

\* An invocation that started runs to its return; a returned error and a
\* returned RequeueAfter both start the next one.
SpecRetry == InitSweep /\ [][ReconcileRetry]_vars /\ WF_vars(ReconcileRetry)

\* ------------------------------------------- the release controller, whole
\* Releases come and go; the release controller reconciles them one at a
\* time while the NodeImage reconciler works on the record they share.  No
\* retention period: the record never carries a last-used annotation.
InitRelease ==
    /\ obj = NoObj
    /\ locs = {"dc1"}
    /\ hist = NoHist
    /\ catalog = {}
    /\ now = 0
    /\ retention = 0
    /\ provOK = TRUE
    /\ urlOK = TRUE
    /\ rpc = "idle"
    /\ ni = NoCopy
    /\ todo = {}
    /\ cur = NoLoc
    /\ inv = NoInv
    /\ wpc = "idle"
    /\ wrel = NoRelease
    /\ wobj = NoCopy
    /\ lastOk = {}
    /\ act = NoAct
    /\ transAt = NoAnnotation
    /\ nInv = 0
    /\ nOps = 0
    /\ BackendUnused
    /\ ReleasesAbsent

NextRelease ==
    \/ \E r \in Releases : Q_Get(r)
    \/ Q_AddFinalizer
    \/ Q_CreateImage
    \/ W_AddGet
    \/ W_AddStatus
    \/ Q_RemoveGet
    \/ Q_RemoveStatus
    \/ Q_DeleteGet
    \/ Q_DeleteImage
    \/ Q_RemoveFinalizer
    \/ \E r \in Releases : U_CreateRelease(r)
    \/ \E r \in Releases : U_DeleteRelease(r)
    \/ R_Get
    \/ R_AddFinalizer
    \/ R_Unreferenced
    \/ R_Exists
    \/ R_SetAvailable
    \/ R_SetUploading
    \/ R_Create
    \/ R_SetError
    \/ R_LoopDone
    \/ R_SetDeleting
    \/ R_ProviderDelete
    \/ R_SetDeleted
    \/ R_DeleteError
    \/ R_RemoveFinalizer

SpecRelease == InitRelease /\ [][NextRelease]_vars

\* ------------------------- Reconcile and DeleteImage under a retention period
\* A record of the store, a retention period configured, and the reconciler
\* running next to the operations of pkg/image Client.
InitRetention ==
    /\ obj \in StoredRecords
    /\ obj.exists
    /\ locs = {"dc1"}
    /\ hist = NoHist
    /\ catalog \in {{}, locs}
    /\ now \in 0..MaxTime
    /\ retention = RetentionSeconds
    /\ provOK = TRUE
    /\ urlOK = TRUE
    /\ rpc = "idle"
    /\ ni = NoCopy
    /\ todo = {}
    /\ cur = NoLoc
    /\ inv = NoInv
    /\ wpc = "idle"
    /\ wrel = NoRelease
    /\ wobj = NoCopy
    /\ lastOk = ListedReleases
    /\ act = NoAct
    /\ transAt = NoAnnotation
    /\ nInv = 0
    /\ nOps = 0
    /\ BackendUnused
    /\ ReleasesAbsent

NextRetention ==
    \/ R_Get
    \/ R_AddFinalizer
    \/ R_AwaitingDeletion
    \/ R_Unreferenced
    \/ R_MarkAwaiting
    \/ R_Exists
    \/ R_SetAvailable
    \/ R_SetUploading
    \/ R_Create
    \/ R_SetError
    \/ R_LoopDone
    \/ R_SetDeleting
    \/ R_ProviderDelete
    \/ R_SetDeleted
    \/ R_DeleteError
    \/ R_RemoveFinalizer
    \/ \E r \in Releases : W_CreateImage(r)
    \/ W_AddGet
    \/ W_AddUpdate
    \/ W_AddStatus
    \/ \E r \in Releases : W_RemoveGet(r)
    \/ W_RemoveStatus
    \/ W_DeleteGet
    \/ W_DeleteUpdate
    \/ W_DeleteStatus
    \/ Tick

SpecRetention == InitRetention /\ [][NextRetention]_vars

====
